---- MODULE Spec2Model ----
(***************************************************************************)
(* A model of colebrook_clamond.f_clamond: the Darcy-Weisbach friction     *)
(* factor by Clamond's quartic iterations.  One behaviour of the model is  *)
(* one call f_clamond(R, K, iters), followed statement by statement.       *)
(*                                                                         *)
(* float64 values are modelled by signed decimal fixed-point numbers with  *)
(* FracLimbs*4 decimals after the point, kept as arbitrary-length naturals *)
(* in base 10^4 (TLC's integers are 32 bits wide).  A value that is not    *)
(* finite (inf, nan) is the one value NaN.                                 *)
(***************************************************************************)
EXTENDS Integers, Sequences, FiniteSets

(***************************************************************************)
(* Naturals of any length: little-endian sequences of limbs in 0..Base-1   *)
(* without leading zero limbs; <<>> is 0.                                  *)
(***************************************************************************)
Base == 10^4

\* Limbs after the decimal point: a value x is kept as the integer x * Base^FracLimbs.
FracLimbs == 4

RECURSIVE NStrip(_)
NStrip(a) ==
  IF a = <<>> THEN a
  ELSE IF a[Len(a)] = 0 THEN NStrip(SubSeq(a, 1, Len(a) - 1)) ELSE a

RECURSIVE NZeros(_)
NZeros(k) == IF k <= 0 THEN <<>> ELSE <<0>> \o NZeros(k - 1)

RECURSIVE NFromInt(_)
NFromInt(n) == IF n = 0 THEN <<>> ELSE <<n % Base>> \o NFromInt(n \div Base)

RECURSIVE NCmpR(_, _, _)
NCmpR(a, b, i) ==
  IF i = 0 THEN 0
  ELSE IF a[i] # b[i] THEN (IF a[i] < b[i] THEN -1 ELSE 1)
  ELSE NCmpR(a, b, i - 1)

\* -1, 0, 1 as a < b, a = b, a > b.
NCmp(a, b) ==
  IF Len(a) # Len(b) THEN (IF Len(a) < Len(b) THEN -1 ELSE 1)
  ELSE NCmpR(a, b, Len(a))

RECURSIVE NAddR(_, _, _, _)
NAddR(a, b, i, c) ==
  IF i > Len(a) /\ i > Len(b) THEN (IF c = 0 THEN <<>> ELSE <<c>>)
  ELSE LET s == (IF i <= Len(a) THEN a[i] ELSE 0)
                + (IF i <= Len(b) THEN b[i] ELSE 0) + c
       IN  <<s % Base>> \o NAddR(a, b, i + 1, s \div Base)

NAdd(a, b) == NAddR(a, b, 1, 0)

RECURSIVE NSubR(_, _, _, _)
NSubR(a, b, i, br) ==
  IF i > Len(a) THEN <<>>
  ELSE LET d == a[i] - (IF i <= Len(b) THEN b[i] ELSE 0) - br
       IN  IF d < 0 THEN <<d + Base>> \o NSubR(a, b, i + 1, 1)
           ELSE <<d>> \o NSubR(a, b, i + 1, 0)

\* a - b for a >= b.
NSub(a, b) == NStrip(NSubR(a, b, 1, 0))

RECURSIVE NMulSmallR(_, _, _, _)
NMulSmallR(a, d, i, c) ==
  IF i > Len(a) THEN (IF c = 0 THEN <<>> ELSE <<c>>)
  ELSE LET p == a[i] * d + c
       IN  <<p % Base>> \o NMulSmallR(a, d, i + 1, p \div Base)

\* a * d for one limb d.
NMulSmall(a, d) == IF d = 0 THEN <<>> ELSE NMulSmallR(a, d, 1, 0)

\* a * Base^k.
NShift(a, k) == IF a = <<>> THEN a ELSE NZeros(k) \o a

\* a \div Base^k.
NShiftRight(a, k) == IF Len(a) <= k THEN <<>> ELSE SubSeq(a, k + 1, Len(a))

\* The sum of the products a[i] * b[k + 1 - i] of column k, from i on.
RECURSIVE NColSum(_, _, _, _)
NColSum(a, b, k, i) ==
  IF i > Len(a) \/ i > k THEN 0
  ELSE a[i] * b[k + 1 - i] + NColSum(a, b, k, i + 1)

RECURSIVE NMulR(_, _, _, _)
NMulR(a, b, k, c) ==
  IF k > Len(a) + Len(b) - 1 THEN (IF c = 0 THEN <<>> ELSE <<c>>)
  ELSE LET s == c + NColSum(a, b, k, IF k > Len(b) THEN k + 1 - Len(b) ELSE 1)
       IN  <<s % Base>> \o NMulR(a, b, k + 1, s \div Base)

\* a * b, a column at a time (a column of up to 20 limb products fits 31 bits).
NMul(a, b) == IF a = <<>> \/ b = <<>> THEN <<>> ELSE NMulR(a, b, 1, 0)

RECURSIVE NDivSmallR(_, _, _, _)
NDivSmallR(a, d, i, r) ==
  IF i = 0 THEN <<>>
  ELSE LET cur == r * Base + a[i]
       IN  NDivSmallR(a, d, i - 1, cur % d) \o <<cur \div d>>

\* a \div d for one limb d > 0.
NDivSmall(a, d) == NStrip(NDivSmallR(a, d, Len(a), 0))

\* The largest q <= qh with q * b <= cur, searched downward from an estimate qh
\* that is not below it.
RECURSIVE NQDown(_, _, _)
NQDown(cur, b, qh) ==
  IF NCmp(NMulSmall(b, qh), cur) <= 0 THEN qh ELSE NQDown(cur, b, qh - 1)

\* The quotient limb cur \div b for cur < b * Base, estimated from the leading
\* limbs of cur and b.
NQDigit(cur, b) ==
  IF NCmp(cur, b) < 0 THEN 0
  ELSE LET lead == IF Len(cur) > Len(b)
                   THEN cur[Len(cur)] * Base + cur[Len(cur) - 1]
                   ELSE cur[Len(cur)]
           est  == lead \div b[Len(b)]
       IN  NQDown(cur, b, IF est > Base - 1 THEN Base - 1 ELSE est)

\* Long division from limb i of a down, with remainder r so far and the
\* quotient limbs acc found so far.  (The tests on q and rem are never true:
\* they make TLC compute q and rem here, before it goes on.)
RECURSIVE NDivR(_, _, _, _, _)
NDivR(a, b, i, r, acc) ==
  IF i = 0 THEN acc
  ELSE LET cur == NStrip(<<a[i]>> \o r)
           q   == NQDigit(cur, b)
           rem == NSub(cur, NMulSmall(b, q))
       IN  IF q < 0 \/ Len(rem) > Len(b) THEN <<>>
           ELSE NDivR(a, b, i - 1, rem, <<q>> \o acc)

\* a \div b for b > 0: long division, a quotient limb at a time, of a and b both
\* scaled to make the leading limb of b at least Base / 2 (so that the estimate
\* of each limb is close).
NDiv(a, b) ==
  LET d  == Base \div (b[Len(b)] + 1)
      ad == NMulSmall(a, d)
      bd == NMulSmall(b, d)
  IN  IF Len(ad) < Len(a) \/ Len(bd) < Len(b) THEN <<>>
      ELSE NStrip(NDivR(ad, bd, Len(ad), <<>>, <<>>))

(***************************************************************************)
(* float64 values: [fin, neg, mag] is the number (-1)^neg * mag /          *)
(* Base^FracLimbs; NaN stands for every value that is not finite.  Results *)
(* are truncated toward zero at the last decimal kept.                     *)
(***************************************************************************)
NaN == [fin |-> FALSE, neg |-> FALSE, mag |-> <<>>]

Fx(neg, mag) == [fin |-> TRUE, neg |-> (neg /\ mag # <<>>), mag |-> mag]

FxInt(n) == Fx(n < 0, NShift(NFromInt(IF n < 0 THEN -n ELSE n), FracLimbs))

IsFinite(x) == x.fin

FxNeg(x) == IF ~x.fin THEN NaN ELSE Fx(~x.neg, x.mag)

FxAdd(x, y) ==
  IF ~x.fin \/ ~y.fin THEN NaN
  ELSE IF x.neg = y.neg THEN Fx(x.neg, NAdd(x.mag, y.mag))
  ELSE IF NCmp(x.mag, y.mag) >= 0 THEN Fx(x.neg, NSub(x.mag, y.mag))
  ELSE Fx(y.neg, NSub(y.mag, x.mag))

FxSub(x, y) == FxAdd(x, FxNeg(y))

FxMul(x, y) ==
  IF ~x.fin \/ ~y.fin THEN NaN
  ELSE Fx(x.neg # y.neg, NShiftRight(NMul(x.mag, y.mag), FracLimbs))

\* x / 0 is inf or nan in float64 (numpy warns and goes on).
FxDiv(x, y) ==
  IF ~x.fin \/ ~y.fin \/ y.mag = <<>> THEN NaN
  ELSE Fx(x.neg # y.neg, NDiv(NShift(x.mag, FracLimbs), y.mag))

\* The decimal literal n / d (d a power of ten), as 18.574 = 18574 / 1000.
FxDec(n, d) == FxDiv(FxInt(n), FxInt(d))

\* x * k and x / k for an integer 0 < k < Base.
FxMulInt(x, k) == IF ~x.fin THEN NaN ELSE Fx(x.neg, NMulSmall(x.mag, k))

FxDivInt(x, k) == IF ~x.fin THEN NaN ELSE Fx(x.neg, NDivSmall(x.mag, k))

\* Comparisons; every comparison with nan is false, as in IEEE 754.
FxLt(x, y) ==
  /\ x.fin /\ y.fin
  /\ IF x.neg # y.neg THEN x.neg
     ELSE IF x.neg THEN NCmp(x.mag, y.mag) > 0 ELSE NCmp(x.mag, y.mag) < 0

FxLe(x, y) == x.fin /\ y.fin /\ (x = y \/ FxLt(x, y))

\* atanh z = z + z^3/3 + z^5/5 + ..., summed until the power of z is 0.
RECURSIVE FxAtanhR(_, _, _, _)
FxAtanhR(z2, pow, n, acc) ==
  IF pow.mag = <<>> \/ ~acc.fin THEN acc
  ELSE FxAtanhR(z2, FxMul(pow, z2), n + 2, FxAdd(acc, FxDivInt(pow, n)))

FxAtanh(z) == FxAtanhR(FxMul(z, z), z, 1, FxInt(0))

\* ln 2 = 2 atanh(1/3).
FxLn2 == FxMulInt(FxAtanh(FxDivInt(FxInt(1), 3)), 2)

\* 3/2 and 3/4 as scaled naturals.
NThreeHalves == NDivSmall(FxInt(3).mag, 2)

NThreeQuarters == NDivSmall(FxInt(3).mag, 4)

\* m = mag / 2^k brought into [3/4, 3/2), ten binary places at a time while it
\* is far from it: <<m, k>>.
RECURSIVE LnReduce(_, _)
LnReduce(m, k) ==
  IF k < -400 \/ k > 400 THEN <<m, k>>
  ELSE IF NCmp(m, NMulSmall(NThreeHalves, 1024)) >= 0
  THEN LnReduce(NDivSmall(m, 1024), k + 10)
  ELSE IF NCmp(m, NThreeHalves) >= 0
  THEN LnReduce(NDivSmall(m, 2), k + 1)
  ELSE IF NCmp(NMulSmall(m, 1024), NThreeQuarters) < 0
  THEN LnReduce(NMulSmall(m, 1024), k - 10)
  ELSE IF NCmp(m, NThreeQuarters) < 0
  THEN LnReduce(NMulSmall(m, 2), k - 1)
  ELSE <<m, k>>

\* np.log: ln x = k ln 2 + 2 atanh((m - 1) / (m + 1)) for x = m * 2^k > 0.
\* ln 0 = -inf and ln of a negative number = nan are both NaN here.
FxLn(x) ==
  IF ~x.fin \/ x.neg \/ x.mag = <<>> THEN NaN
  ELSE LET mk == LnReduce(x.mag, 0)
           m  == Fx(FALSE, mk[1])
           z  == FxDiv(FxSub(m, FxInt(1)), FxAdd(m, FxInt(1)))
           kl == IF mk[2] < 0 THEN FxNeg(FxMulInt(FxLn2, -mk[2]))
                 ELSE FxMulInt(FxLn2, mk[2])
       IN  FxAdd(kl, FxMulInt(FxAtanh(z), 2))

(***************************************************************************)
(* Python and numpy values.  kind is "float" (a plain Python float),       *)
(* "float64" (a numpy scalar, what a ufunc returns when every operand is   *)
(* 0-dimensional), "ndarray" or "None"; shape is <<>> or <<n>>.            *)
(***************************************************************************)
None == [kind |-> "None", shape |-> <<>>, data |-> <<>>]

PyFloat(x) == [kind |-> "float", shape |-> <<>>, data |-> <<x>>]

\* A numpy scalar (np.float64), as np.log(10.0) is.
NpFloat(x) == [kind |-> "float64", shape |-> <<>>, data |-> <<x>>]

Arr0(x) == [kind |-> "ndarray", shape |-> <<>>, data |-> <<x>>]

Arr1(xs) == [kind |-> "ndarray", shape |-> <<Len(xs)>>, data |-> xs]

Size(shape) == IF shape = <<>> THEN 1 ELSE shape[1]

\* numpy's broadcasting rule for shapes of at most one dimension.
Broadcastable(s, t) ==
  IF s = <<>> \/ t = <<>> THEN TRUE ELSE (s[1] = t[1] \/ s[1] = 1 \/ t[1] = 1)

BroadcastShape(s, t) ==
  IF s = <<>> THEN t
  ELSE IF t = <<>> THEN s
  ELSE IF s[1] = 1 THEN t ELSE s

\* A stretch that repeats the first element of every operand.
ElemFirst(v, i) == v.data[1]

\* Element i of v stretched to a broadcast shape.
Elem(v, i) == IF Len(v.data) = 1 THEN v.data[1] ELSE v.data[i]

\* np.asarray(v, dtype=np.float64)
AsArray(v) == [kind |-> "ndarray", shape |-> v.shape, data |-> v.data]

\* np.isscalar(v): true of Python and numpy scalars, false of every ndarray.
IsScalar(v) == v.kind \in {"float", "float64"}

\* The result of an elementwise operation of shape s with elements d.
UResult(a, b, s, d) ==
  [kind  |-> IF s # <<>> THEN "ndarray"
             ELSE IF a.kind = "float" /\ b.kind = "float" THEN "float"
             ELSE "float64",
   shape |-> s,
   data  |-> d]

\* The scalar operation of an arithmetic operator.
Apply(op, x, y) ==
  IF op = "+" THEN FxAdd(x, y)
  ELSE IF op = "-" THEN FxSub(x, y)
  ELSE IF op = "*" THEN FxMul(x, y)
  ELSE FxDiv(x, y)

Ufunc2(op, a, b) ==
  LET s == BroadcastShape(a.shape, b.shape)
  IN  UResult(a, b, s, [j \in 1..Size(s) |-> Apply(op, Elem(a, j), Elem(b, j))])

UAdd(a, b) == Ufunc2("+", a, b)

USub(a, b) == Ufunc2("-", a, b)

UMul(a, b) == Ufunc2("*", a, b)

UDiv(a, b) == Ufunc2("/", a, b)

\* np.log(a)
ULog(a) ==
  [kind  |-> IF a.shape = <<>> THEN "float64" ELSE "ndarray",
   shape |-> a.shape,
   data  |-> [j \in 1..Len(a.data) |-> FxLn(a.data[j])]]

\* np.any(a <= c), np.any(a < c)
AnyLe(a, c) == \E j \in 1..Len(a.data) : FxLe(a.data[j], c)

AnyLt(a, c) == \E j \in 1..Len(a.data) : FxLt(a.data[j], c)

(***************************************************************************)
(* Constants used by Clamond's scheme.                                     *)
(***************************************************************************)
_LOG10 == FxLn(FxInt(10))

\* Line 27 with two digits of 18.574 exchanged.
_C1Transposed == FxDiv(_LOG10, FxDec(18547, 1000))

_C1 == FxDiv(_LOG10, FxDec(18574, 1000))

_C2 == FxAdd(FxLn(FxDiv(FxInt(1), FxDec(502, 100))), FxLn(_LOG10))

\* The literal 1.151292546497022842: its decimals in groups of four.
ADigits == <<1512, 9254, 6497, 228, 4200>>

_A == Fx(FALSE, [j \in 1..(FracLimbs + 1) |->
        IF j = FracLimbs + 1 THEN 1
        ELSE IF FracLimbs + 1 - j <= Len(ADigits) THEN ADigits[FracLimbs + 1 - j]
        ELSE 0])

(***************************************************************************)
(* The statements of f_clamond as operators on values.                     *)
(***************************************************************************)
\* X1 = K * R * _C1
ComputeX1(Kv, Rv) == UMul(UMul(Kv, Rv), NpFloat(_C1))

\* X2 = np.log(R) + _C2
ComputeX2(Rv) == UAdd(ULog(Rv), NpFloat(_C2))

\* F = X2 - 0.2
InitialF(X2v) == USub(X2v, PyFloat(FxDec(2, 10)))

\* A domain check that tests only the first element.
LogDomainViolatedFirst(X1v, Fv) ==
  FxLe(UAdd(X1v, Fv).data[1], FxInt(0))

\* _check_log_domain(F_current) raises: np.any((X1 + F_current) <= 0.0)
LogDomainViolated(X1v, Fv) == AnyLe(UAdd(X1v, Fv), FxInt(0))

\* E = (np.log(X1 + F) + F - X2) / (1.0 + X1 + F)
QuarticE(X1v, X2v, Fv) ==
  UDiv(USub(UAdd(ULog(UAdd(X1v, Fv)), Fv), X2v),
       UAdd(UAdd(PyFloat(FxInt(1)), X1v), Fv))

\* F = F - (1.0 + X1 + F + 0.5 * E) * E * (X1 + F) / (1.0 + X1 + F + E * (1.0 + E / 3.0))
QuarticF(X1v, Fv, Ev) ==
  USub(Fv,
       UDiv(UMul(UMul(UAdd(UAdd(UAdd(PyFloat(FxInt(1)), X1v), Fv),
                           UMul(PyFloat(FxDec(5, 10)), Ev)),
                      Ev),
                 UAdd(X1v, Fv)),
            UAdd(UAdd(UAdd(PyFloat(FxInt(1)), X1v), Fv),
                 UMul(Ev, UAdd(PyFloat(FxInt(1)), UDiv(Ev, PyFloat(FxInt(3))))))))

\* Line 86 without the square.
FinalMapUnsquared(Fv) == UDiv(PyFloat(_A), Fv)

\* f = (_A / F) ** 2
FinalMap(Fv) ==
  LET q == UDiv(PyFloat(_A), Fv)
  IN  UMul(q, q)

\* The test of line 89, on the locals as they are then: R and K are the arrays of
\* lines 49-50.
ReturnsFloat(fv, Rv, Kv) == fv.shape = <<>> /\ IsScalar(Rv) /\ IsScalar(Kv)

(***************************************************************************)
(* One call f_clamond(R, K, iters).                                        *)
(***************************************************************************)
\* The longest one-dimensional array passed and the largest iters passed.
MaxLen == 3

MaxIters == 2

\* Reynolds numbers passed as scalars: out of the domain (-1, 0), below the
\* turbulent range (1, 2.69, 2299), at its edge (2300) and inside it.
RScalars ==
  {FxInt(-1), FxInt(0), FxInt(1), FxDec(269, 100), FxInt(2299), FxInt(2300),
   FxInt(700000), FxInt(10000000)}

\* Elements of the arrays passed as R.
RElems == {FxInt(0), FxDec(269, 100), FxInt(700000)}

\* R = np.array([3e3, 7e5, 1e7]) of the example script.
ExampleR == Arr1(<<FxInt(3000), FxInt(700000), FxInt(10000000)>>)

KScalars == {FxDec(-1, 1000), FxInt(0), FxDec(1, 100), FxDec(5, 100)}

KElems == {FxDec(-1, 1000), FxDec(1, 100)}

SeqsUpTo(S, n) == UNION {[1..k -> S] : k \in 1..n}

RInputs ==
  {PyFloat(x) : x \in RScalars} \cup {Arr0(x) : x \in RScalars}
    \cup {Arr1(xs) : xs \in SeqsUpTo(RElems, MaxLen)} \cup {ExampleR}

KInputs ==
  {PyFloat(x) : x \in KScalars} \cup {Arr0(x) : x \in KScalars}
    \cup {Arr1(xs) : xs \in SeqsUpTo(KElems, MaxLen)}

ItersInputs == -1..MaxIters

VARIABLES
  pc,       \* the statement about to run, or "returned" / "raised"
  argR,     \* R as passed
  argK,     \* K as passed
  R,        \* the local R (rebound by line 49)
  K,        \* the local K (rebound by line 50)
  iters,    \* the argument iters
  warned,   \* warnings emitted by warnings.warn
  X1, X2,   \* the locals X1, X2
  F,        \* the local F
  E,        \* the local E
  n,        \* iterations of the for loop completed
  f,        \* the local f
  result,   \* the value returned
  exc       \* the exception raised, or "none"

vars == <<pc, argR, argK, R, K, iters, warned, X1, X2, F, E, n, f, result, exc>>

Init ==
  /\ pc = "asarray"
  /\ argR \in RInputs
  /\ argK \in KInputs
  /\ R = argR
  /\ K = argK
  /\ iters \in ItersInputs
  /\ warned = 0
  /\ X1 = None /\ X2 = None /\ F = None /\ E = None /\ f = None
  /\ n = 0
  /\ result = None
  /\ exc = "none"

Raise(e) ==
  /\ pc' = "raised"
  /\ exc' = e
  /\ UNCHANGED <<argR, argK, R, K, iters, warned, X1, X2, F, E, n, f, result>>

Goto(l) == pc' = l /\ UNCHANGED <<argR, argK, iters, result, exc>>

\* lines 49-50
ConvertInputs ==
  /\ pc = "asarray"
  /\ R' = AsArray(R)
  /\ K' = AsArray(K)
  /\ Goto("checkR")
  /\ UNCHANGED <<warned, X1, X2, F, E, n, f>>

\* The test of line 52 with a strict comparison: R = 0 passes it.
RNegative(Rv) == AnyLt(Rv, FxInt(0))

\* np.any(R <= 0)
RNotPositive(Rv) == AnyLe(Rv, FxInt(0))

\* np.any(K < 0)
KNegative(Kv) == AnyLt(Kv, FxInt(0))

\* lines 52-53
CheckR ==
  /\ pc = "checkR"
  /\ \/ RNotPositive(R) /\ Raise("ValueError: R must be positive")
     \/ /\ ~RNotPositive(R)
        /\ Goto("checkK")
        /\ UNCHANGED <<R, K, warned, X1, X2, F, E, n, f>>

\* lines 54-55
CheckK ==
  /\ pc = "checkK"
  /\ \/ KNegative(K) /\ Raise("ValueError: K must be non-negative")
     \/ /\ ~KNegative(K)
        /\ Goto("checkIters")
        /\ UNCHANGED <<R, K, warned, X1, X2, F, E, n, f>>

\* lines 56-57
CheckIters ==
  /\ pc = "checkIters"
  /\ \/ iters < 0 /\ Raise("ValueError: iters must be >= 0")
     \/ /\ ~(iters < 0)
        /\ Goto("warn")
        /\ UNCHANGED <<R, K, warned, X1, X2, F, E, n, f>>

\* The test of line 60 with <=: R = 2300 warns.
AtOrBelowTurbulent(Rv) == AnyLe(Rv, FxInt(2300))

\* np.any(R < 2300)
BelowTurbulent(Rv) == AnyLt(Rv, FxInt(2300))

\* Lines 60-61 with warnings turned into errors: the warning ends the call.
WarnAsError ==
  /\ pc = "warn"
  /\ \/ BelowTurbulent(R) /\ Raise("RuntimeWarning: R < 2300")
     \/ /\ ~BelowTurbulent(R)
        /\ Goto("X1")
        /\ UNCHANGED <<R, K, warned, X1, X2, F, E, n, f>>

\* lines 60-61: warn but proceed
Warn ==
  /\ pc = "warn"
  /\ warned' = IF BelowTurbulent(R) THEN warned + 1 ELSE warned
  /\ Goto("X1")
  /\ UNCHANGED <<R, K, X1, X2, F, E, n, f>>

\* line 64; K * R raises numpy's ValueError when the shapes do not broadcast.
AssignX1 ==
  /\ pc = "X1"
  /\ \/ /\ ~Broadcastable(K.shape, R.shape)
        /\ Raise("ValueError: operands could not be broadcast together")
     \/ /\ Broadcastable(K.shape, R.shape)
        /\ X1' = ComputeX1(K, R)
        /\ Goto("X2")
        /\ UNCHANGED <<R, K, warned, X2, F, E, n, f>>

\* line 65
AssignX2 ==
  /\ pc = "X2"
  /\ X2' = ComputeX2(R)
  /\ Goto("F")
  /\ UNCHANGED <<R, K, warned, X1, F, E, n, f>>

\* line 68
AssignF ==
  /\ pc = "F"
  /\ F' = InitialF(X2)
  /\ Goto("for")
  /\ UNCHANGED <<R, K, warned, X1, X2, E, n, f>>

\* A loop that runs one item short.
LoopStopsEarly(done, its) == done < its - 1

\* range(iters) has another item
LoopContinues(done, its) == done < its

\* line 80: for _ in range(iters)
ForLoop ==
  /\ pc = "for"
  /\ \/ LoopContinues(n, iters) /\ Goto("check")
     \/ ~LoopContinues(n, iters) /\ Goto("map")
  /\ UNCHANGED <<R, K, warned, X1, X2, F, E, n, f>>

\* line 81 and lines 72-77
CheckLogDomain ==
  /\ pc = "check"
  /\ \/ LogDomainViolated(X1, F) /\ Raise("FloatingPointError: log domain")
     \/ /\ ~LogDomainViolated(X1, F)
        /\ Goto("E")
        /\ UNCHANGED <<R, K, warned, X1, X2, F, E, n, f>>

\* line 82
AssignE ==
  /\ pc = "E"
  /\ E' = QuarticE(X1, X2, F)
  /\ Goto("update")
  /\ UNCHANGED <<R, K, warned, X1, X2, F, n, f>>

\* line 83, and the end of the loop body
UpdateF ==
  /\ pc = "update"
  /\ F' = QuarticF(X1, F, E)
  /\ n' = n + 1
  /\ Goto("for")
  /\ UNCHANGED <<R, K, warned, X1, X2, E, f>>

\* line 86
AssignFrictionFactor ==
  /\ pc = "map"
  /\ f' = FinalMap(F)
  /\ Goto("return")
  /\ UNCHANGED <<R, K, warned, X1, X2, F, E, n>>

\* lines 89-91
Return ==
  /\ pc = "return"
  /\ \/ /\ ReturnsFloat(f, R, K)
        /\ result' = PyFloat(f.data[1])
     \/ /\ ~ReturnsFloat(f, R, K)
        /\ result' = f
  /\ pc' = "returned"
  /\ UNCHANGED <<argR, argK, R, K, iters, warned, X1, X2, F, E, n, f, exc>>

Next ==
  \/ ConvertInputs
  \/ CheckR
  \/ CheckK
  \/ CheckIters
  \/ Warn
  \/ AssignX1
  \/ AssignX2
  \/ AssignF
  \/ ForLoop
  \/ CheckLogDomain
  \/ AssignE
  \/ UpdateF
  \/ AssignFrictionFactor
  \/ Return

Spec == Init /\ [][Next]_vars

(***************************************************************************)
(* The call as a function of its arguments: what f_clamond(Rv, Kv, its)    *)
(* raises or returns, by the statements above in the order of the code.    *)
(***************************************************************************)
\* (A local is never None once assigned: the tests on None make TLC compute
\* each statement's value before the next statement, as Python does.)
RECURSIVE Refine(_, _, _, _)
Refine(X1v, X2v, Fv, k) ==
  IF k <= 0 THEN [exc |-> "none", F |-> Fv]
  ELSE IF LogDomainViolated(X1v, Fv)
  THEN [exc |-> "FloatingPointError: log domain", F |-> Fv]
  ELSE LET Ev == QuarticE(X1v, X2v, Fv)
           Fn == IF Ev = None THEN None ELSE QuarticF(X1v, Fv, Ev)
       IN  IF Fn = None THEN [exc |-> "none", F |-> Fn]
           ELSE Refine(X1v, X2v, Fn, k - 1)

FClamond(Rv, Kv, its) ==
  LET Ra == AsArray(Rv)
      Ka == AsArray(Kv)
  IN  IF RNotPositive(Ra)
      THEN [exc |-> "ValueError: R must be positive", value |-> None]
      ELSE IF KNegative(Ka)
      THEN [exc |-> "ValueError: K must be non-negative", value |-> None]
      ELSE IF its < 0
      THEN [exc |-> "ValueError: iters must be >= 0", value |-> None]
      ELSE IF ~Broadcastable(Ka.shape, Ra.shape)
      THEN [exc |-> "ValueError: operands could not be broadcast together",
            value |-> None]
      ELSE LET x1 == ComputeX1(Ka, Ra)
               x2 == IF x1 = None THEN None ELSE ComputeX2(Ra)
               f0 == IF x2 = None THEN None ELSE InitialF(x2)
               rf == IF f0 = None THEN [exc |-> "none", F |-> None]
                     ELSE Refine(x1, x2, f0, its)
               fv == IF rf.exc # "none" THEN None ELSE FinalMap(rf.F)
           IN  IF fv = None THEN [exc |-> rf.exc, value |-> None]
               ELSE [exc   |-> "none",
                     value |-> IF ReturnsFloat(fv, Ra, Ka)
                               THEN PyFloat(fv.data[1]) ELSE fv]

(***************************************************************************)
(* Properties of one call.                                                 *)
(***************************************************************************)
ValidationErrors ==
  {"ValueError: R must be positive", "ValueError: K must be non-negative",
   "ValueError: iters must be >= 0"}

\* The statements before the turbulence warning.
Validating == {"asarray", "checkR", "checkK", "checkIters"}

\* C1: a call with an element of R <= 0, an element of K < 0 or iters < 0 never
\* gets past the validation: it is still validating or it has raised one of the
\* three ValueErrors, and then no warning was emitted, X1, X2, F, E and f were
\* never assigned, no refinement step ran and nothing was returned.
C1_InvalidArgumentsRaiseFirst ==
  ((\E j \in 1..Len(argR.data) : FxLe(argR.data[j], FxInt(0)))
     \/ (\E j \in 1..Len(argK.data) : FxLt(argK.data[j], FxInt(0)))
     \/ iters < 0)
  => /\ pc \in Validating \/ (pc = "raised" /\ exc \in ValidationErrors)
     /\ warned = 0
     /\ X1 = None /\ X2 = None /\ F = None /\ E = None /\ f = None
     /\ n = 0
     /\ result = None

\* An array R below the turbulent range everywhere, with a negative element
\* in an array K: the call has raised the ValueError of line 55.
C1_Witness ==
  /\ pc = "raised"
  /\ exc = "ValueError: K must be non-negative"
  /\ argK.shape # <<>>
  /\ argR.shape # <<>>
  /\ \A j \in 1..Len(argR.data) : argR.data[j] = FxDec(269, 100)

\* C2: whenever ln(X1 + F) is about to be evaluated (line 82), every element
\* of X1 + F is strictly positive, and the E computed from it is finite; a
\* FloatingPointError is raised only with some element of X1 + F <= 0.
C2_LogArgumentPositive ==
  /\ pc = "E" =>
       \A j \in 1..Len(UAdd(X1, F).data) : FxLt(FxInt(0), UAdd(X1, F).data[j])
  /\ pc = "update" => \A j \in 1..Len(E.data) : IsFinite(E.data[j])
  /\ (pc = "raised" /\ exc = "FloatingPointError: log domain") =>
       \E j \in 1..Len(UAdd(X1, F).data) : FxLe(UAdd(X1, F).data[j], FxInt(0))

\* The check of the second step fails, after a first step that passed it, on
\* an element that is not the first.
C2_Witness ==
  /\ pc = "raised"
  /\ exc = "FloatingPointError: log domain"
  /\ n = 1
  /\ Len(F.data) > 1
  /\ FxLt(FxInt(0), UAdd(X1, F).data[1])

\* C3: a call that gets past the loop has made exactly iters updates of F,
\* none when iters = 0, and no call makes more than iters.
C3_ExactlyItersSteps ==
  /\ pc \in {"map", "return", "returned"} => n = iters
  /\ n <= IF iters < 0 THEN 0 ELSE iters

\* Two steps were asked for and made, the second with E = 0 (F already at its
\* fixed point).
C3_Witness ==
  /\ pc = "returned"
  /\ iters = 2
  /\ n = 2
  /\ E.data[1] = FxInt(0)

\* C6: once validation has passed and line 60 has run, exactly one warning
\* was emitted if some element of R is below 2300 and none otherwise (none for
\* R = 2300); no warning is emitted earlier.
C6_WarningIffBelow2300 ==
  IF pc \in Validating \cup {"warn"} \/ (pc = "raised" /\ exc \in ValidationErrors)
  THEN warned = 0
  ELSE warned = IF \E j \in 1..Len(argR.data) : FxLt(argR.data[j], FxInt(2300))
                THEN 1 ELSE 0

\* A batch with two elements below 2300 has warned once.
C6_Witness ==
  /\ pc = "returned"
  /\ warned = 1
  /\ Len(argR.data) = 3
  /\ FxLt(argR.data[1], FxInt(2300))
  /\ FxLt(argR.data[2], FxInt(2300))

\* R > 0 and K >= 0 in every element, iters >= 0, and shapes that broadcast.
ValidCall ==
  /\ \A j \in 1..Len(argR.data) : FxLt(FxInt(0), argR.data[j])
  /\ \A j \in 1..Len(argK.data) : FxLe(FxInt(0), argK.data[j])
  /\ iters >= 0
  /\ Broadcastable(argK.shape, argR.shape)

\* C4: the value returned has the broadcast shape of R and K as passed, for
\* every iters >= 0.
C4_ResultHasBroadcastShape ==
  pc = "returned" => result.shape = BroadcastShape(argR.shape, argK.shape)

\* C5: two plain scalars give a plain float (the return of line 90); any other
\* inputs give an ndarray of the broadcast shape.
C5_ScalarInScalarOut ==
  pc = "returned" =>
    IF argR.kind = "float" /\ argK.kind = "float"
    THEN result.kind = "float"
    ELSE /\ result.kind = "ndarray"
         /\ result.shape = BroadcastShape(argR.shape, argK.shape)

\* C7 as stated: a valid call that has emitted the warning never fails.
C7_WarnedCallReturns == (ValidCall /\ warned = 1) => pc # "raised"

\* C7, amended: the statement that warns always goes on to line 64, and a
\* valid call that has warned fails only at a domain check of the refinement
\* loop; with iters = 0 it always returns.
C7_WarningNotFatal ==
  [][/\ pc = "warn" => pc' = "X1"
     /\ (ValidCall /\ warned' = 1 /\ pc' = "raised")
          => /\ exc' = "FloatingPointError: log domain"
             /\ iters >= 1]_vars

\* R = 2299 has warned and the two steps asked for have run and returned.
C7_Witness ==
  /\ pc = "returned"
  /\ warned = 1
  /\ iters = 2
  /\ argR = PyFloat(FxInt(2299))
  /\ result.data[1].fin

\* C9 as stated: with R > 0, K >= 0 and iters >= 1 the call does not fail, and
\* what it returns is finite and strictly positive in every element.
C9_AlwaysPositiveFinite ==
  (ValidCall /\ iters >= 1)
  => /\ pc # "raised"
     /\ pc = "returned" =>
          \A j \in 1..Len(result.data) :
            IsFinite(result.data[j]) /\ FxLt(FxInt(0), result.data[j])

\* C9, amended: with R > 0, K >= 0 and iters >= 1 the call fails only by the
\* domain check, and only with some R below the turbulent range; when the loop
\* is done F is finite and not zero in every element, and what is returned is
\* finite and strictly positive in every element.
C9_PositiveFiniteOrDomainError ==
  (ValidCall /\ iters >= 1)
  => /\ pc = "raised" =>
          /\ exc = "FloatingPointError: log domain"
          /\ \E j \in 1..Len(argR.data) : FxLt(argR.data[j], FxInt(2300))
     /\ pc \in {"map", "return", "returned"} =>
          \A j \in 1..Len(F.data) : IsFinite(F.data[j]) /\ F.data[j] # FxInt(0)
     /\ pc = "returned" =>
          \A j \in 1..Len(result.data) :
            IsFinite(result.data[j]) /\ FxLt(FxInt(0), result.data[j])

\* One step from R = 2.69 leaves F negative: the friction factor returned is
\* positive all the same.
C9_Witness ==
  /\ pc = "returned"
  /\ iters = 1
  /\ FxLt(F.data[1], FxInt(0))
  /\ FxLt(FxInt(0), result.data[1])

\* C8: when a call with an array R returns, element i of the result is what
\* the call on the scalars R_i and K_i, with the same iters, returns.
C8_ElementwiseAsScalarCall ==
  (pc = "returned" /\ argR.shape # <<>>) =>
    \A i \in 1..Len(result.data) :
      LET Ri == IF Len(argR.data) = 1 THEN argR.data[1] ELSE argR.data[i]
          Ki == IF Len(argK.data) = 1 THEN argK.data[1] ELSE argK.data[i]
          sc == FClamond(PyFloat(Ri), PyFloat(Ki), iters)
      IN  sc.exc = "none" /\ sc.value.data[1] = result.data[i]

\* The array scenario of the example script: R = [3e3, 7e5, 1e7], K = 0.01
\* and iters = 2 has returned three distinct elements.
C8_Witness ==
  /\ pc = "returned"
  /\ argR = ExampleR
  /\ argK = PyFloat(FxDec(1, 100))
  /\ iters = 2
  /\ Len(result.data) = 3
  /\ result.data[1] # result.data[2]
  /\ result.data[2] # result.data[3]

\* C10: for R = 7e5, K = 0.01 and iters = 2 the value returned is within 1e-10
\* (relative) of the root of the Colebrook equation.  With s = F / _A, the
\* value returned is 1 / s^2 to within 1e-14, and the residual
\* s + 2 log10(K / 3.7 + 2.51 s / R), which increases with s, changes sign
\* between s (1 - 4e-11) and s (1 + 4e-11): the root 1 / sqrt(f) is within
\* 4e-11 of s, and f within 8.1e-11 of the value returned.
C10_MatchesColebrookRoot ==
  (/\ pc = "returned"
   /\ argR.data = <<FxInt(700000)>>
   /\ argK.data = <<FxDec(1, 100)>>
   /\ iters = 2)
  => LET s    == FxDiv(F.data[1], _A)
         tol  == FxMul(FxDec(4, 100000), FxDec(1, 1000000))
         unit == FxSub(FxMul(FxMul(s, s), result.data[1]), FxInt(1))
         Residual(t) ==
           FxAdd(t, FxMulInt(FxDiv(FxLn(FxAdd(FxDiv(argK.data[1], FxDec(37, 10)),
                                              FxDiv(FxMul(FxDec(251, 100), t),
                                                    argR.data[1]))),
                                   FxLn(FxInt(10))), 2))
     IN  /\ FxLt(FxInt(0), s)
         /\ FxLt(FxDec(-1, 10000 * 10000), FxMul(unit, FxInt(1000000)))
         /\ FxLt(FxMul(unit, FxInt(1000000)), FxDec(1, 10000 * 10000))
         /\ FxLt(Residual(FxMul(s, FxSub(FxInt(1), tol))), FxInt(0))
         /\ FxLt(FxInt(0), Residual(FxMul(s, FxAdd(FxInt(1), tol))))

\* The reference scenario has returned f = 0.03799...
C10_Witness ==
  /\ pc = "returned"
  /\ argR = PyFloat(FxInt(700000))
  /\ argK = PyFloat(FxDec(1, 100))
  /\ iters = 2
  /\ FxLt(FxDec(379908, 10000000), result.data[1])
  /\ FxLt(result.data[1], FxDec(379909, 10000000))

====
